---- MODULE Spec2Model ----
(***************************************************************************)
(* A model of eithr's `Either<L, R>` (src/src/lib.rs): the two-variant sum *)
(* type and its operations.  Both type parameters are instantiated at the  *)
(* same small unsigned integer type, so that a `Left` and a `Right` can    *)
(* hold values that compare equal.  A client program owns a container      *)
(* `orig`, may bind a duplicate `dup`, and calls the operations on them;   *)
(* `call` records the last call: its receiver, its arguments, its result.  *)
(***************************************************************************)
EXTENDS Integers, Sequences, FiniteSets, TLC

VARIABLES mem, ctor, call

vars == <<mem, ctor, call>>

\* ---------------------------------------------------------------- bounds
MaxVal == 2
MaxFeed == 1

\* ------------------------------------------------------- values and inputs
Vals == 0 .. MaxVal

\* The unit type `()` has the empty tuple as its only value.
Unit == << >>

Identity == [x \in Vals |-> x]
Successor == [x \in Vals |-> (x + 1) % (MaxVal + 1)]
Zero == [x \in Vals |-> 0]
Mirror == [x \in Vals |-> MaxVal - x]

\* The closures a caller passes to resolve, map_left and map_right.
Closures == {Identity, Successor, Zero, Mirror}

\* States of a std::hash::Hasher: the sequence of values written so far.
Feeds == UNION {[1 .. n -> Vals] : n \in 0 .. MaxFeed}

\* ------------------------------------------------------------ the enum
Left(l) == [tag |-> "Left", val |-> l]
Right(r) == [tag |-> "Right", val |-> r]

Either == {Left(l) : l \in Vals} \cup {Right(r) : r \in Vals}

\* Either<L, ()>
EitherUnit == {Left(l) : l \in Vals} \cup {Right(Unit)}

\* Option<T>
Some(x) == [some |-> TRUE, val |-> x]
None == [some |-> FALSE]

\* -------------------------------------- operations of the held types
\* `==` of the held integer type.
ValEq(x, y) == x = y

\* `clone` (and the copy `*l`) of the held integer type.
ValClone(v) == v

\* `hash` of the held integer type: one write into the hasher.
ValHash(v, state) == Append(state, v)

\* A reference to the payload of the container stored at address a.
Ref(a) == [ref |-> a]

\* Reading through a reference.
Deref(m, p) == m[p.ref].val

\* Writing w through a mutable reference: only the payload is replaced.
Store(m, p, w) ==
  [b \in DOMAIN m |-> IF b = p.ref THEN [tag |-> m[b].tag, val |-> w] ELSE m[b]]

\* Binding the variable at address a to the container c.
Bind(m, a, c) ==
  [b \in (DOMAIN m) \cup {a} |-> IF b = a THEN c ELSE m[b]]

\* ------------------------------------------------------- Either's methods
is_left(self) == self.tag = "Left"

is_right_same(self) == is_left(self)

is_right(self) == ~ is_left(self)

\* The result, and the log of closure applications <<which, argument>>.
resolve_eager(self, left, right) ==
  IF self.tag = "Left"
    THEN [ret |-> left[self.val],
          applied |-> << <<"left", self.val>>, <<"right", self.val>> >>]
    ELSE [ret |-> right[self.val],
          applied |-> << <<"left", self.val>>, <<"right", self.val>> >>]

resolve(self, left, right) ==
  IF self.tag = "Left"
    THEN [ret |-> left[self.val], applied |-> << <<"left", self.val>> >>]
    ELSE [ret |-> right[self.val], applied |-> << <<"right", self.val>> >>]

take_left(self) == IF self.tag = "Left" THEN Some(self.val) ELSE None

take_right_any(self) == Some(self.val)

take_right(self) == IF self.tag = "Right" THEN Some(self.val) ELSE None

map_left_both(self, f) ==
  IF self.tag = "Left" THEN Left(f[self.val]) ELSE Right(f[self.val])

map_left(self, f) ==
  IF self.tag = "Left" THEN Left(f[self.val]) ELSE Right(self.val)

map_right(self, f) ==
  IF self.tag = "Left" THEN Left(self.val) ELSE Right(f[self.val])

as_ref(m, a) ==
  IF m[a].tag = "Left" THEN Left(Ref(a)) ELSE Right(Ref(a))

as_mut_detached(m, a) ==
  IF m[a].tag = "Left" THEN Left(Ref("tmp")) ELSE Right(Ref("tmp"))

as_mut(m, a) ==
  IF m[a].tag = "Left" THEN Left(Ref(a)) ELSE Right(Ref(a))

transpose_right_kept(self) ==
  IF self.tag = "Left" THEN Right(self.val) ELSE Right(self.val)

transpose(self) ==
  IF self.tag = "Left" THEN Right(self.val) ELSE Left(self.val)

copied(self) ==
  IF self.tag = "Left" THEN Left(ValClone(self.val)) ELSE Right(ValClone(self.val))

cloned(self) ==
  IF self.tag = "Left" THEN Left(ValClone(self.val)) ELSE Right(ValClone(self.val))

eq_untagged(self, other) == ValEq(self.val, other.val)

eq(self, other) ==
  IF self.tag = "Left" /\ other.tag = "Left" THEN ValEq(self.val, other.val)
  ELSE IF self.tag = "Right" /\ other.tag = "Right" THEN ValEq(self.val, other.val)
  ELSE FALSE

hash_tagged(self, state) ==
  ValHash(self.val, Append(state, IF self.tag = "Left" THEN 0 ELSE 1))

hash(self, state) ==
  IF self.tag = "Left" THEN ValHash(self.val, state) ELSE ValHash(self.val, state)

clone_as_left(self) == Left(ValClone(self.val))

clone(self) ==
  IF self.tag = "Left" THEN Left(ValClone(self.val)) ELSE Right(ValClone(self.val))

from_none(either) == None

from(either) ==
  resolve(either, [l \in Vals |-> Some(l)], [u \in {Unit} |-> None]).ret

\* ----------------------------------------------------------- the program
Init ==
  /\ \E c \in Either :
       /\ mem = [a \in {"orig"} |-> c]
       /\ ctor = [a \in {"orig"} |-> c.tag]
       /\ call = [op |-> "new", at |-> "orig", self |-> c]

\* orig = Left(l)
NewLeft(l) ==
  /\ mem' = Bind(mem, "orig", Left(l))
  /\ ctor' = Bind(ctor, "orig", "Left")
  /\ call' = [op |-> "new", at |-> "orig", self |-> Left(l)]

\* orig = Right(r)
NewRight(r) ==
  /\ mem' = Bind(mem, "orig", Right(r))
  /\ ctor' = Bind(ctor, "orig", "Right")
  /\ call' = [op |-> "new", at |-> "orig", self |-> Right(r)]

IsLeft(a) ==
  /\ call' = [op |-> "is_left", at |-> a, self |-> mem[a], ret |-> is_left(mem[a])]
  /\ UNCHANGED <<mem, ctor>>

IsRight(a) ==
  /\ call' = [op |-> "is_right", at |-> a, self |-> mem[a], ret |-> is_right(mem[a])]
  /\ UNCHANGED <<mem, ctor>>

Resolve(a, f, g) ==
  /\ LET r == resolve(mem[a], f, g)
     IN  call' = [op |-> "resolve", at |-> a, self |-> mem[a], left |-> f,
                  right |-> g, ret |-> r.ret, applied |-> r.applied]
  /\ UNCHANGED <<mem, ctor>>

TakeLeft(a) ==
  /\ call' = [op |-> "take_left", at |-> a, self |-> mem[a], ret |-> take_left(mem[a])]
  /\ UNCHANGED <<mem, ctor>>

TakeRight(a) ==
  /\ call' = [op |-> "take_right", at |-> a, self |-> mem[a], ret |-> take_right(mem[a])]
  /\ UNCHANGED <<mem, ctor>>

MapLeft(a, f) ==
  /\ call' = [op |-> "map_left", at |-> a, self |-> mem[a], f |-> f,
              ret |-> map_left(mem[a], f)]
  /\ UNCHANGED <<mem, ctor>>

MapRight(a, f) ==
  /\ call' = [op |-> "map_right", at |-> a, self |-> mem[a], f |-> f,
              ret |-> map_right(mem[a], f)]
  /\ UNCHANGED <<mem, ctor>>

AsRef(a) ==
  /\ call' = [op |-> "as_ref", at |-> a, self |-> mem[a], ret |-> as_ref(mem, a)]
  /\ UNCHANGED <<mem, ctor>>

\* The mutable view is taken and dropped without a write.
AsMut(a) ==
  /\ call' = [op |-> "as_mut", at |-> a, self |-> mem[a], ret |-> as_mut(mem, a)]
  /\ UNCHANGED <<mem, ctor>>

\* match c.as_mut() { Left(l) => *l = w, Right(r) => *r = w }
AsMutWrite(a, w) ==
  /\ LET view == as_mut(mem, a)
     IN  /\ mem' = Store(mem, view.val, w)
         /\ call' = [op |-> "as_mut_write", at |-> a, self |-> mem[a],
                     ret |-> view, w |-> w]
  /\ UNCHANGED ctor

Transpose(a) ==
  /\ call' = [op |-> "transpose", at |-> a, self |-> mem[a], ret |-> transpose(mem[a])]
  /\ UNCHANGED <<mem, ctor>>

\* c.transpose().transpose(): the second transpose, applied to the first's result.
TransposeAgain ==
  /\ call.op = "transpose"
  /\ call' = [op |-> "transpose_twice", at |-> call.at, self |-> call.self,
              ret |-> transpose(call.ret)]
  /\ UNCHANGED <<mem, ctor>>

\* dup = orig.copied()
Copied ==
  /\ LET d == copied(mem["orig"])
     IN  /\ mem' = Bind(mem, "dup", d)
         /\ ctor' = Bind(ctor, "dup", d.tag)
         /\ call' = [op |-> "copied", at |-> "orig", self |-> mem["orig"], ret |-> d]

\* dup = orig.cloned()
Cloned ==
  /\ LET d == cloned(mem["orig"])
     IN  /\ mem' = Bind(mem, "dup", d)
         /\ ctor' = Bind(ctor, "dup", d.tag)
         /\ call' = [op |-> "cloned", at |-> "orig", self |-> mem["orig"], ret |-> d]

\* dup = orig.clone()
Clone ==
  /\ LET d == clone(mem["orig"])
     IN  /\ mem' = Bind(mem, "dup", d)
         /\ ctor' = Bind(ctor, "dup", d.tag)
         /\ call' = [op |-> "clone", at |-> "orig", self |-> mem["orig"], ret |-> d]

\* c == other
Eq(a, other) ==
  /\ call' = [op |-> "eq", at |-> a, self |-> mem[a], other |-> other,
              ret |-> eq(mem[a], other)]
  /\ UNCHANGED <<mem, ctor>>

\* c.hash(&mut state), with the hasher in state `state` before the call
Hash(a, state) ==
  /\ call' = [op |-> "hash", at |-> a, self |-> mem[a], state |-> state,
              ret |-> hash(mem[a], state)]
  /\ UNCHANGED <<mem, ctor>>

\* Option::from(either) for an Either<L, ()>
From(either) ==
  /\ call' = [op |-> "from", at |-> "arg", self |-> either, ret |-> from(either)]
  /\ UNCHANGED <<mem, ctor>>

Next ==
  \/ \E l \in Vals : NewLeft(l)
  \/ \E r \in Vals : NewRight(r)
  \/ \E a \in DOMAIN mem : IsLeft(a)
  \/ \E a \in DOMAIN mem : IsRight(a)
  \/ \E a \in DOMAIN mem, f \in Closures, g \in Closures : Resolve(a, f, g)
  \/ \E a \in DOMAIN mem : TakeLeft(a)
  \/ \E a \in DOMAIN mem : TakeRight(a)
  \/ \E a \in DOMAIN mem, f \in Closures : MapLeft(a, f)
  \/ \E a \in DOMAIN mem, f \in Closures : MapRight(a, f)
  \/ \E a \in DOMAIN mem : AsRef(a)
  \/ \E a \in DOMAIN mem : AsMut(a)
  \/ \E a \in DOMAIN mem, w \in Vals : AsMutWrite(a, w)
  \/ \E a \in DOMAIN mem : Transpose(a)
  \/ TransposeAgain
  \/ Copied
  \/ Cloned
  \/ Clone
  \/ \E a \in DOMAIN mem, other \in Either : Eq(a, other)
  \/ \E a \in DOMAIN mem, state \in Feeds : Hash(a, state)
  \/ \E either \in EitherUnit : From(either)

Spec == Init /\ [][Next]_vars

TypeOK ==
  /\ DOMAIN mem \in {{"orig"}, {"orig", "dup"}}
  /\ \A a \in DOMAIN mem : mem[a] \in Either
  /\ DOMAIN ctor = DOMAIN mem

\* ------------------------------------------------------------ properties
Containers == {mem[a] : a \in DOMAIN mem}

\* C1: resolve returns left(l) for Left(l) and right(r) for Right(r), and
\* applies exactly the matching closure, exactly once, to the held value;
\* the other closure is never applied.
ResolveAppliesMatching ==
  call.op = "resolve" =>
    /\ call.self.tag = "Left" =>
         /\ call.ret = call.left[call.self.val]
         /\ call.applied = << <<"left", call.self.val>> >>
    /\ call.self.tag = "Right" =>
         /\ call.ret = call.right[call.self.val]
         /\ call.applied = << <<"right", call.self.val>> >>

ResolveRightSeen ==
  /\ call.op = "resolve"
  /\ call.self.tag = "Right"
  /\ call.right[call.self.val] # call.left[call.self.val]
  /\ call.ret = call.right[call.self.val]

\* C2: take_left gives Some(l) on Left(l) and None on Right; take_right gives
\* Some(r) on Right(r) and None on Left.  A miss is the value None.
TakeRoundTrip ==
  /\ call.op = "take_left" =>
       call.ret = IF call.self.tag = "Left" THEN Some(call.self.val) ELSE None
  /\ call.op = "take_right" =>
       call.ret = IF call.self.tag = "Right" THEN Some(call.self.val) ELSE None

TakeMissSeen ==
  /\ call.op = "take_right"
  /\ call.self.tag = "Left"
  /\ call.ret = None

\* C3: two containers are equal iff they hold the same tag and equal values; a
\* Left and a Right are never equal; container equality is reflexive,
\* symmetric and transitive over the containers of the state.
EqStructural ==
  call.op = "eq" =>
    /\ call.ret = (call.self.tag = call.other.tag /\ call.self.val = call.other.val)
    /\ call.self.tag # call.other.tag => call.ret = FALSE
    /\ LET S == Containers \cup {call.other}
       IN  /\ \A x \in S : eq(x, x)
           /\ \A x \in S, y \in S : eq(x, y) = eq(y, x)
           /\ \A x \in S, y \in S, z \in S : eq(x, y) /\ eq(y, z) => eq(x, z)

EqCrossTagSeen ==
  /\ call.op = "eq"
  /\ call.self.tag # call.other.tag
  /\ call.self.val = call.other.val
  /\ call.ret = FALSE

\* C4: map_left applies f under Left and passes Right through; map_right
\* applies g under Right and passes Left through; the tag is kept, and
\* mapping the identity gives a container equal to the receiver.
MapKeepsTag ==
  /\ call.op = "map_left" =>
       /\ call.ret = IF call.self.tag = "Left"
                       THEN Left(call.f[call.self.val]) ELSE Right(call.self.val)
       /\ call.ret.tag = call.self.tag
       /\ call.f = Identity => eq(call.ret, call.self)
  /\ call.op = "map_right" =>
       /\ call.ret = IF call.self.tag = "Right"
                       THEN Right(call.f[call.self.val]) ELSE Left(call.self.val)
       /\ call.ret.tag = call.self.tag
       /\ call.f = Identity => eq(call.ret, call.self)

MapPassThroughSeen ==
  /\ call.op = "map_left"
  /\ call.self.tag = "Right"
  /\ call.f[call.self.val] # call.self.val
  /\ call.ret = call.self

\* C5: transpose flips the tag and keeps the value; transposing twice gives a
\* container equal to the original.
TransposeInvolution ==
  /\ call.op = "transpose" =>
       /\ call.ret = IF call.self.tag = "Left"
                       THEN Right(call.self.val) ELSE Left(call.self.val)
       /\ call.ret.tag # call.self.tag
       /\ call.ret.val = call.self.val
  /\ call.op = "transpose_twice" => eq(call.ret, call.self)

TransposeTwiceSeen ==
  /\ call.op = "transpose_twice"
  /\ call.self.tag = "Left"
  /\ call.ret = call.self

\* C6: a write through the view of as_mut replaces the held value of the
\* container and nothing else, so every container keeps the tag it was
\* constructed with; as_ref and as_mut give a view with the container's tag
\* and leave the container as it was.
ViewWriteKeepsTag ==
  /\ [](\A a \in DOMAIN mem : mem[a].tag = ctor[a])
  /\ [](call.op \in {"as_ref", "as_mut", "as_mut_write"} =>
          call.ret.tag = call.self.tag)
  /\ [](call.op = "as_ref" => Deref(mem, call.ret.val) = call.self.val)
  /\ [][call'.op = "as_mut_write" =>
          /\ DOMAIN mem' = DOMAIN mem
          /\ mem'[call'.at] = [tag |-> mem[call'.at].tag, val |-> call'.w]
          /\ \A b \in DOMAIN mem \ {call'.at} : mem'[b] = mem[b]]_vars
  /\ [][call'.op \in {"as_ref", "as_mut"} => mem' = mem]_vars

ViewWriteSeen ==
  /\ call.op = "as_mut_write"
  /\ call.at = "orig"
  /\ call.w # call.self.val
  /\ mem["orig"] = [tag |-> call.self.tag, val |-> call.w]

\* C7: copied, cloned and clone give a duplicate with the tag and the value of
\* the original, equal to it; a later write into the duplicate leaves the
\* original as it was.
DuplicateEqualAndOwned ==
  /\ [](call.op \in {"copied", "cloned", "clone"} =>
          /\ call.ret.tag = call.self.tag
          /\ call.ret.val = call.self.val
          /\ eq(call.ret, call.self)
          /\ mem["dup"] = call.ret
          /\ mem["orig"] = call.self)
  /\ [][call'.op = "as_mut_write" /\ call'.at = "dup" =>
          mem'["orig"] = mem["orig"]]_vars

DuplicateWrittenSeen ==
  /\ call.op = "as_mut_write"
  /\ call.at = "dup"
  /\ mem["dup"].tag = "Right"
  /\ mem["orig"].tag = "Right"
  /\ mem["dup"].val # mem["orig"].val

\* C8: hashing a container leaves the hasher where hashing the held value
\* alone leaves it, whatever the tag: a Left and a Right whose values hash
\* alike hash alike.
HashFeedsValueOnly ==
  call.op = "hash" =>
    /\ call.ret = ValHash(call.self.val, call.state)
    /\ \A c \in Either :
         ValHash(c.val, call.state) = ValHash(call.self.val, call.state)
           => hash(c, call.state) = call.ret

HashRightSeen ==
  /\ call.op = "hash"
  /\ call.self.tag = "Right"
  /\ Len(call.state) > 0
  /\ call.ret = hash(Left(call.self.val), call.state)

\* C9: is_left and is_right are complements: is_left is true exactly on Left,
\* is_right exactly on Right, and neither changes the container.
QueriesComplement ==
  /\ [](\A c \in Containers : is_left(c) # is_right(c))
  /\ [](call.op = "is_left" => call.ret = (call.self.tag = "Left"))
  /\ [](call.op = "is_right" => call.ret = (call.self.tag = "Right"))
  /\ [][call'.op \in {"is_left", "is_right"} => mem' = mem]_vars

IsRightTrueSeen ==
  /\ call.op = "is_right"
  /\ call.self.tag = "Right"
  /\ call.ret = TRUE

\* C10: converting an Either<L, ()> to an Option gives Some(x) for Left(x) and
\* None for Right(()), which is what take_left gives.
FromIsTakeLeft ==
  call.op = "from" =>
    /\ call.self.tag = "Left" => call.ret = Some(call.self.val)
    /\ call.self.tag = "Right" => call.ret = None
    /\ call.ret = take_left(call.self)

FromLeftSeen ==
  /\ call.op = "from"
  /\ call.self.tag = "Left"
  /\ call.ret = Some(call.self.val)
====
